---- MODULE Spec2Model ----
(***************************************************************************)
(* Model of frame/contracts/src/chain_extension.rs: the ChainExtension     *)
(* trait, its unit implementation, and the type-state Environment that an  *)
(* extension receives for one host call.                                   *)
(*                                                                         *)
(* The Environment borrows the wasm Runtime (gas meter, sandbox memory,    *)
(* execution context).  Runtime itself is not part of chain_extension.rs;  *)
(* the three primitives the Environment forwards to (charge_gas,           *)
(* read_sandbox_memory, write_sandbox_output) are modelled from the        *)
(* written specification of the host interface.                            *)
(*                                                                         *)
(* Widths are scaled: U32Max stands for u32::max_value() and WeightMax for *)
(* Weight::max_value(); arithmetic saturates or is bounds-checked against  *)
(* them exactly where the code's arithmetic does against the real widths.  *)
(***************************************************************************)
EXTENDS Integers, Sequences, FiniteSets, TLC

\* ------------------------------------------------------------------ bounds
\* number of bytes of guest sandbox memory (addresses 0 .. MemSize - 1)
MemSize == 8
\* greatest call word (stands for u32::max_value())
U32Max == 12
\* greatest Weight (stands for u64::max_value())
WeightMax == 6
\* number of environment operations explored over all dispatches
MaxSteps == 4

\* ------------------------------------------------------------- input sets
FuncIds == {0, 7}
InPtrs == {0, MemSize - 2}
InLens == {0, 3}
OutPtrs == {0, 4, U32Max}
OutLenPtrs == {0, 4, MemSize - 2}
Bufs == {<< >>, <<9>>, <<9, 8, 7>>}
NoWeight == [some |-> FALSE, w |-> 0]
SomeWeight(w) == [some |-> TRUE, w |-> w]
WeightOpts == {NoWeight, SomeWeight(2), SomeWeight(WeightMax)}
Amounts == {2, WeightMax}
InitGas == {1, WeightMax}
\* two guest memory images: a 3-byte input at 0 with the output length word
\* (declaring 3 bytes) at 4, and the output length word (declaring 1 byte) at 0
Image1 == <<1, 2, 3, 0, 3, 0, 0, 0>>
Image2 == <<1, 0, 0, 0, 5, 6, 0, 0>>
MemoryOf(img) == [a \in 0 .. MemSize - 1 |-> IF a < Len(img) THEN img[a + 1] ELSE 0]
InitMemories == {MemoryOf(Image1), MemoryOf(Image2)}

\* ---------------------------------------------------------- mod state {}
Init_ == "Init"
OnlyIn == "OnlyIn"
PrimInBufOut == "PrimInBufOut"
BufInBufOut == "BufInBufOut"
State == {Init_, OnlyIn, PrimInBufOut, BufInBufOut}

\* impl PrimIn for .. / impl PrimOut for .. / impl BufIn for .. / impl BufOut for ..
PrimIn == {OnlyIn, PrimInBufOut}
\* variant: PrimOut also implemented for PrimInBufOut
PrimOut_wide == {OnlyIn, PrimInBufOut}
PrimOut == {OnlyIn}
BufIn == {BufInBufOut}
BufOut == {PrimInBufOut, BufInBufOut}

\* ------------------------------------------------------------- Result<T>
Ok(v) == [tag |-> "Ok", val |-> v]
Err(e) == [tag |-> "Err", val |-> e]
Unit == "()"
NoChainExtension == "NoChainExtension"
OutOfGas == "OutOfGas"
MemoryAccessOutOfBounds == "MemoryAccessOutOfBounds"

\* enum RetVal
Converging(v) == [kind |-> "Converging", value |-> v]
Diverging(f, d) == [kind |-> "Diverging", flags |-> f, data |-> d]
RetVals == {Converging(0), Diverging(1, <<9>>)}

VARIABLES live, state, input_ptr, input_len, output_ptr, output_len_ptr,
          gas_left, memory, lastOp, ret, trace, steps, guest

inner == <<input_ptr, input_len, output_ptr, output_len_ptr>>
runtime == <<gas_left, memory>>
vars == <<live, state, input_ptr, input_len, output_ptr, output_len_ptr,
          gas_left, memory, lastOp, ret, trace, steps, guest>>

\* ------------------------------------------------ host runtime primitives
\* trace events: what an operation did to the host runtime, in order
ChargeEv(amount) == [ev |-> "charge_gas", amount |-> amount]
GetEv(ptr, len) == [ev |-> "get", ptr |-> ptr, len |-> len]
SetEv(ptr, bytes) == [ev |-> "set", ptr |-> ptr, bytes |-> bytes]
CallerEv == [ev |-> "caller"]

\* RuntimeToken::ChainExtension(amount), and no token
ChainExtension(amount) == [some |-> TRUE, amount |-> amount]
NoToken == [some |-> FALSE, amount |-> 0]

\* Runtime::charge_gas: the meter pays the token's amount or reports OutOfGas
charge_gas(gas, token) ==
    IF token.amount <= gas
    THEN [ret |-> Ok(Unit), gas |-> gas - token.amount]
    ELSE [ret |-> Err(OutOfGas), gas |-> gas]

\* bounds-checked access to the sandbox memory
InBounds(ptr, len) == ptr + len <= MemSize
get(mem, ptr, len) == [i \in 1 .. len |-> mem[ptr + i - 1]]
set(mem, ptr, bytes) ==
    [a \in DOMAIN mem |->
        IF a >= ptr /\ a < ptr + Len(bytes) THEN bytes[a - ptr + 1] ELSE mem[a]]

\* a 32-bit value in guest memory: four bytes, least significant first
encode(n) == <<n % 256, (n \div 256) % 256, (n \div 65536) % 256, (n \div 16777216) % 256>>
decode(b) == b[1] + 256 * b[2] + 65536 * b[3] + 16777216 * b[4]

\* Runtime::read_sandbox_memory
read_sandbox_memory(mem, ptr, len) ==
    IF InBounds(ptr, len)
    THEN [ret |-> Ok(get(mem, ptr, len)), trace |-> <<GetEv(ptr, len)>>]
    ELSE [ret |-> Err(MemoryAccessOutOfBounds), trace |-> <<GetEv(ptr, len)>>]

\* Runtime::write_sandbox_output
write_sandbox_output(gas, mem, out_ptr, out_len_ptr, buf, allow_skip, create_token) ==
    LET buf_len == Len(buf)
        token == create_token[buf_len]
        charged == charge_gas(gas, token)
        gas1 == IF token.some THEN charged.gas ELSE gas
        tr0 == <<GetEv(out_len_ptr, 4)>>
        tr1 == IF token.some THEN Append(tr0, ChargeEv(token.amount)) ELSE tr0
        mem1 == set(mem, out_len_ptr, encode(buf_len))
        tr2 == Append(tr1, SetEv(out_len_ptr, encode(buf_len)))
    IN  IF allow_skip /\ out_ptr = U32Max
        THEN [ret |-> Ok(Unit), gas |-> gas, mem |-> mem, trace |-> << >>]
        ELSE IF ~InBounds(out_len_ptr, 4)
        THEN [ret |-> Err(MemoryAccessOutOfBounds), gas |-> gas, mem |-> mem, trace |-> tr0]
        ELSE IF decode(get(mem, out_len_ptr, 4)) < buf_len
        THEN [ret |-> Err(MemoryAccessOutOfBounds), gas |-> gas, mem |-> mem, trace |-> tr0]
        ELSE IF token.some /\ charged.ret.tag = "Err"
        THEN [ret |-> charged.ret, gas |-> gas1, mem |-> mem, trace |-> tr1]
        ELSE IF ~InBounds(out_ptr, buf_len)
        THEN [ret |-> Err(MemoryAccessOutOfBounds), gas |-> gas1, mem |-> mem1, trace |-> tr2]
        ELSE [ret |-> Ok(Unit), gas |-> gas1, mem |-> set(mem1, out_ptr, buf),
              trace |-> Append(tr2, SetEv(out_ptr, buf))]

\* ------------------------------------------------ outer call-return path
\* the guest invocation: started and yet to make a host call, or as a host
\* call left it: running with the value the call yielded, terminated with a
\* flags/data pair, or failed with an error
Started == [status |-> "started", value |-> 0]
Running(v) == [status |-> "running", value |-> v]
Terminated(flags, data) == [status |-> "terminated", value |-> <<flags, data>>]
Failed(e) == [status |-> "failed", value |-> e]

\* variant: a Diverging result is handed to the guest like a Converging one
outcome_resumes(result) ==
    IF result.tag = "Err" THEN Failed(result.val)
    ELSE IF result.val.kind = "Converging" THEN Running(result.val.value)
    ELSE Running(result.val.flags)

\* what the outer path makes of the Result<RetVal> of ChainExtension::call
outcome(result) ==
    IF result.tag = "Err" THEN Failed(result.val)
    ELSE IF result.val.kind = "Converging" THEN Running(result.val.value)
    ELSE Terminated(result.val.flags, result.val.data)

\* --------------------------------------------------------- Environment
Op(name, args) == [op |-> name, args |-> args]

\* variant: a wrapping multiplication
saturating_mul_wrapping(a, b) == (a * b) % (WeightMax + 1)

\* Weight::saturating_mul
saturating_mul(a, b) == IF a * b > WeightMax THEN WeightMax ELSE a * b

\* variant: the closure never prices the write
cost_free(weight_per_byte, len) == NoToken

\* variant: the closure prices an unpriced write at one unit a byte
cost_flat(weight_per_byte, len) ==
    IF weight_per_byte.some
    THEN ChainExtension(saturating_mul(weight_per_byte.w, len))
    ELSE ChainExtension(saturating_mul(1, len))

\* the closure write() hands to write_sandbox_output
cost(weight_per_byte, len) ==
    IF weight_per_byte.some
    THEN ChainExtension(saturating_mul(weight_per_byte.w, len))
    ELSE NoToken

Init ==
    /\ live = FALSE
    /\ state = Init_
    /\ input_ptr = 0 /\ input_len = 0 /\ output_ptr = 0 /\ output_len_ptr = 0
    /\ gas_left \in InitGas
    /\ memory \in InitMemories
    /\ lastOp = Op("none", << >>)
    /\ ret = Ok(Unit)
    /\ trace = << >>
    /\ steps = 0
    /\ guest = Started

Step == steps < MaxSteps /\ steps' = steps + 1

\* variant: environment stores the output words in the other order
environment_swapped(ip, il, op, olp) ==
    /\ Step /\ ~live /\ guest.status # "terminated"
    /\ live' = TRUE
    /\ state' = Init_
    /\ input_ptr' = ip /\ input_len' = il /\ output_ptr' = olp /\ output_len_ptr' = op
    /\ lastOp' = Op("environment", <<ip, il, op, olp>>)
    /\ ret' = Ok(Unit)
    /\ trace' = << >>
    /\ UNCHANGED <<runtime, guest>>

\* variant: environment does not need the runtime to be free
environment_reentrant(ip, il, op, olp) ==
    /\ Step /\ guest.status # "terminated"
    /\ live' = TRUE
    /\ state' = Init_
    /\ input_ptr' = ip /\ input_len' = il /\ output_ptr' = op /\ output_len_ptr' = olp
    /\ lastOp' = Op("environment", <<ip, il, op, olp>>)
    /\ ret' = Ok(Unit)
    /\ trace' = << >>
    /\ UNCHANGED <<runtime, guest>>

\* pub(crate) fn environment(runtime, input_ptr, input_len, output_ptr, output_len_ptr)
environment(ip, il, op, olp) ==
    /\ Step /\ ~live /\ guest.status # "terminated"
    /\ live' = TRUE
    /\ state' = Init_
    /\ input_ptr' = ip /\ input_len' = il /\ output_ptr' = op /\ output_len_ptr' = olp
    /\ lastOp' = Op("environment", <<ip, il, op, olp>>)
    /\ ret' = Ok(Unit)
    /\ trace' = << >>
    /\ UNCHANGED <<runtime, guest>>

\* variant: the unit call fails without touching the execution context
call_silent(func_id) ==
    /\ Step /\ live /\ state = Init_ /\ lastOp.op = "environment"
    /\ live' = FALSE
    /\ lastOp' = Op("call", <<func_id>>)
    /\ trace' = << >>
    /\ ret' = Err(NoChainExtension)
    /\ guest' = outcome(Err(NoChainExtension))
    /\ UNCHANGED <<state, inner, runtime>>

\* variant: the unit call charges the environment before it fails
call_charging(func_id) ==
    /\ Step /\ live /\ state = Init_ /\ lastOp.op = "environment"
    /\ live' = FALSE
    /\ lastOp' = Op("call", <<func_id>>)
    /\ trace' = <<ChargeEv(1), CallerEv>>
    /\ ret' = Err(NoChainExtension)
    /\ guest' = outcome(Err(NoChainExtension))
    /\ gas_left' = charge_gas(gas_left, ChainExtension(1)).gas
    /\ UNCHANGED <<state, inner, memory>>

\* impl ChainExtension for (): call, which is env.ext().caller() and the error
call(func_id) ==
    /\ Step /\ live /\ state = Init_ /\ lastOp.op = "environment"
    /\ live' = FALSE
    /\ lastOp' = Op("call", <<func_id>>)
    /\ trace' = <<CallerEv>>
    /\ ret' = Err(NoChainExtension)
    /\ guest' = outcome(Err(NoChainExtension))
    /\ UNCHANGED <<state, inner, runtime>>

\* the implementations of the trait: the unit type, and one that keeps the
\* trait's provided enabled()
Impls == {"()", "provided"}

\* ChainExtension::enabled, the provided method
enabled_provided == TRUE

\* variant: the unit implementation keeps the extension on
enabled_unit_on == TRUE

\* impl ChainExtension for (): enabled
enabled_unit == FALSE

\* the host asking an implementation whether the extension is enabled
enabled(impl) ==
    /\ Step /\ ~live
    /\ lastOp' = Op("enabled", <<impl>>)
    /\ trace' = << >>
    /\ ret' = Ok(IF impl = "()" THEN enabled_unit ELSE enabled_provided)
    /\ UNCHANGED <<live, state, inner, runtime, guest>>

\* a ChainExtension implementation's call returning to the host
return(result) ==
    /\ Step /\ live
    /\ live' = FALSE
    /\ lastOp' = Op("return", << >>)
    /\ trace' = << >>
    /\ ret' = result
    /\ guest' = outcome(result)
    /\ UNCHANGED <<state, inner, runtime>>

\* variant: charge_weight drops the meter's answer
charge_weight_lenient(amount) ==
    /\ Step /\ live
    /\ LET r == charge_gas(gas_left, ChainExtension(amount))
       IN  /\ gas_left' = r.gas
           /\ ret' = Ok(Unit)
    /\ lastOp' = Op("charge_weight", <<amount>>)
    /\ trace' = <<ChargeEv(amount)>>
    /\ UNCHANGED <<live, state, inner, memory, guest>>

\* Environment::charge_weight
charge_weight(amount) ==
    /\ Step /\ live
    /\ LET r == charge_gas(gas_left, ChainExtension(amount))
       IN  /\ gas_left' = r.gas
           /\ ret' = r.ret
    /\ lastOp' = Op("charge_weight", <<amount>>)
    /\ trace' = <<ChargeEv(amount)>>
    /\ UNCHANGED <<live, state, inner, memory, guest>>

\* Environment::ext: hands out the runtime's execution context and calls
\* nothing on it
ext ==
    /\ Step /\ live
    /\ lastOp' = Op("ext", << >>)
    /\ trace' = << >>
    /\ ret' = Ok(Unit)
    /\ UNCHANGED <<live, state, inner, runtime, guest>>

\* variant: a transition that borrows the environment from any state
Transition_any_state(name, target) ==
    /\ Step /\ live
    /\ state' = target
    /\ lastOp' = Op(name, << >>)
    /\ trace' = << >>
    /\ ret' = Ok(Unit)
    /\ UNCHANGED <<live, inner, runtime, guest>>

\* variant: a transition that charges the meter
Transition_charging(name, target) ==
    /\ Step /\ live /\ state = Init_
    /\ state' = target
    /\ lastOp' = Op(name, << >>)
    /\ trace' = <<ChargeEv(1)>>
    /\ ret' = Ok(Unit)
    /\ gas_left' = charge_gas(gas_left, ChainExtension(1)).gas
    /\ UNCHANGED <<live, inner, memory, guest>>

\* the three transitions out of Init: the marker changes, inner is moved
Transition(name, target) ==
    /\ Step /\ live /\ state = Init_
    /\ state' = target
    /\ lastOp' = Op(name, << >>)
    /\ trace' = << >>
    /\ ret' = Ok(Unit)
    /\ UNCHANGED <<live, inner, runtime, guest>>

only_in == Transition("only_in", OnlyIn)
prim_in_buf_out == Transition("prim_in_buf_out", PrimInBufOut)
buf_in_buf_out == Transition("buf_in_buf_out", BufInBufOut)

\* an accessor that only returns a field of inner
Accessor(name, cap, field) ==
    /\ Step /\ live /\ state \in cap
    /\ lastOp' = Op(name, << >>)
    /\ trace' = << >>
    /\ ret' = Ok(field)
    /\ UNCHANGED <<live, state, inner, runtime, guest>>

val0 == Accessor("val0", PrimIn, input_ptr)
val1 == Accessor("val1", PrimIn, input_len)
val2 == Accessor("val2", PrimOut, output_ptr)
val3 == Accessor("val3", PrimOut, output_len_ptr)

\* variant: read takes the output pointer for the input pointer
read_output_ptr ==
    /\ Step /\ live /\ state \in BufIn
    /\ LET r == read_sandbox_memory(memory, output_ptr, input_len)
       IN  /\ ret' = r.ret
           /\ trace' = r.trace
    /\ lastOp' = Op("read", << >>)
    /\ UNCHANGED <<live, state, inner, runtime, guest>>

\* variant: read takes pointer and length in the other order
read_swapped ==
    /\ Step /\ live /\ state \in BufIn
    /\ LET r == read_sandbox_memory(memory, input_len, input_ptr)
       IN  /\ ret' = r.ret
           /\ trace' = r.trace
    /\ lastOp' = Op("read", << >>)
    /\ UNCHANGED <<live, state, inner, runtime, guest>>

\* variant: read charges the meter for the bytes it reads
read_charging ==
    /\ Step /\ live /\ state \in BufIn
    /\ LET r == read_sandbox_memory(memory, input_ptr, input_len)
           c == charge_gas(gas_left, ChainExtension(saturating_mul(1, input_len)))
       IN  /\ ret' = IF c.ret.tag = "Err" THEN c.ret ELSE r.ret
           /\ trace' = <<ChargeEv(saturating_mul(1, input_len))>> \o r.trace
           /\ gas_left' = c.gas
    /\ lastOp' = Op("read", << >>)
    /\ UNCHANGED <<live, state, inner, memory, guest>>

\* Environment::read
read ==
    /\ Step /\ live /\ state \in BufIn
    /\ LET r == read_sandbox_memory(memory, input_ptr, input_len)
       IN  /\ ret' = r.ret
           /\ trace' = r.trace
    /\ lastOp' = Op("read", << >>)
    /\ UNCHANGED <<live, state, inner, runtime, guest>>

\* variant: write does not pass allow_skip on
write_never_skips(buf, allow_skip, weight_per_byte) ==
    /\ Step /\ live /\ state \in BufOut
    /\ LET r == write_sandbox_output(gas_left, memory, output_ptr, output_len_ptr,
                                     buf, FALSE,
                                     [len \in 0 .. U32Max |-> cost(weight_per_byte, len)])
       IN  /\ ret' = r.ret
           /\ gas_left' = r.gas
           /\ memory' = r.mem
           /\ trace' = r.trace
    /\ lastOp' = Op("write", <<buf, allow_skip, weight_per_byte>>)
    /\ UNCHANGED <<live, state, inner, guest>>

\* variant: write passes the two output words in the other order
write_swapped(buf, allow_skip, weight_per_byte) ==
    /\ Step /\ live /\ state \in BufOut
    /\ LET r == write_sandbox_output(gas_left, memory, output_len_ptr, output_ptr,
                                     buf, allow_skip,
                                     [len \in 0 .. U32Max |-> cost(weight_per_byte, len)])
       IN  /\ ret' = r.ret
           /\ gas_left' = r.gas
           /\ memory' = r.mem
           /\ trace' = r.trace
    /\ lastOp' = Op("write", <<buf, allow_skip, weight_per_byte>>)
    /\ UNCHANGED <<live, state, inner, guest>>

\* variant: write takes the output pointer for the length pointer too
write_len_at_output_ptr(buf, allow_skip, weight_per_byte) ==
    /\ Step /\ live /\ state \in BufOut
    /\ LET r == write_sandbox_output(gas_left, memory, output_ptr, output_ptr,
                                     buf, allow_skip,
                                     [len \in 0 .. U32Max |-> cost(weight_per_byte, len)])
       IN  /\ ret' = r.ret
           /\ gas_left' = r.gas
           /\ memory' = r.mem
           /\ trace' = r.trace
    /\ lastOp' = Op("write", <<buf, allow_skip, weight_per_byte>>)
    /\ UNCHANGED <<live, state, inner, guest>>

\* Environment::write
write(buf, allow_skip, weight_per_byte) ==
    /\ Step /\ live /\ state \in BufOut
    /\ LET r == write_sandbox_output(gas_left, memory, output_ptr, output_len_ptr,
                                     buf, allow_skip,
                                     [len \in 0 .. U32Max |-> cost(weight_per_byte, len)])
       IN  /\ ret' = r.ret
           /\ gas_left' = r.gas
           /\ memory' = r.mem
           /\ trace' = r.trace
    /\ lastOp' = Op("write", <<buf, allow_skip, weight_per_byte>>)
    /\ UNCHANGED <<live, state, inner, guest>>

Results == {Ok(rv) : rv \in RetVals} \cup {Err("Other")}

Next ==
    \/ \E ip \in InPtrs, il \in InLens, op \in OutPtrs, olp \in OutLenPtrs :
          environment(ip, il, op, olp)
    \/ \E f \in FuncIds : call(f)
    \/ \E r \in Results : return(r)
    \/ \E i \in Impls : enabled(i)
    \/ \E a \in Amounts : charge_weight(a)
    \/ ext
    \/ only_in
    \/ prim_in_buf_out
    \/ buf_in_buf_out
    \/ val0
    \/ val1
    \/ val2
    \/ val3
    \/ read
    \/ \E b \in Bufs, s \in BOOLEAN, w \in WeightOpts : write(b, s, w)

Spec == Init /\ [][Next]_vars

\* ------------------------------------------------------------ properties
Accessors == {"val0", "val1", "val2", "val3", "read", "write"}
TransitionOps == {"only_in", "prim_in_buf_out", "buf_in_buf_out"}
CanStep == live /\ steps < MaxSteps
\* the write just performed, read off lastOp'
WBuf(o) == o.args[1]
WSkip(o) == o.args[2]
WWeight(o) == o.args[3]
Skipped(o, out_ptr) == WSkip(o) /\ out_ptr = U32Max
HasEv(tr, e) == \E i \in DOMAIN tr : tr[i].ev = e

\* C1: an accessor is invoked, and can be invoked, only in a state whose
\* capability set holds the accessor's capability: val0/val1 in OnlyIn and
\* PrimInBufOut, val2/val3 in OnlyIn, read in BufInBufOut, write in
\* PrimInBufOut and BufInBufOut, none of them in Init.
C1_CapabilityTable ==
    /\ lastOp.op \in {"val0", "val1"} => state \in {"OnlyIn", "PrimInBufOut"}
    /\ lastOp.op \in {"val2", "val3"} => state = "OnlyIn"
    /\ lastOp.op = "read" => state = "BufInBufOut"
    /\ lastOp.op = "write" => state \in {"PrimInBufOut", "BufInBufOut"}
    /\ CanStep =>
        /\ (ENABLED val0) <=> state \in {"OnlyIn", "PrimInBufOut"}
        /\ (ENABLED val1) <=> state \in {"OnlyIn", "PrimInBufOut"}
        /\ (ENABLED val2) <=> state = "OnlyIn"
        /\ (ENABLED val3) <=> state = "OnlyIn"
        /\ (ENABLED read) <=> state = "BufInBufOut"
        /\ (ENABLED write(<< >>, FALSE, NoWeight)) <=> state \in {"PrimInBufOut", "BufInBufOut"}

C1_Witness == lastOp.op = "write" /\ state = "PrimInBufOut" /\ live

\* C2: within one dispatch the marker starts at Init, changes only by one of
\* the three transitions, each taken from Init to its own target, and never
\* changes again: away from Init no transition can be called.
C2_OneShotTransition ==
    [][lastOp'.op # "environment" =>
        /\ lastOp'.op \in TransitionOps <=> state' # state
        /\ state' # state =>
            /\ state = "Init"
            /\ <<lastOp'.op, state'>> \in {<<"only_in", "OnlyIn">>,
                                           <<"prim_in_buf_out", "PrimInBufOut">>,
                                           <<"buf_in_buf_out", "BufInBufOut">>}
        /\ state # "Init" => state' = state
        /\ state' # "Init" /\ steps' < MaxSteps =>
            ~(ENABLED only_in)' /\ ~(ENABLED prim_in_buf_out)' /\ ~(ENABLED buf_in_buf_out)'
      ]_vars

C2_Witness == live /\ state = "BufInBufOut" /\ lastOp.op = "read"

\* the saturated price of the priced write o, as the closure of write() sets it
Price(o) ==
    LET product == WWeight(o).w * Len(WBuf(o))
    IN  IF product > WeightMax THEN WeightMax ELSE product

\* the output buffer of the write o fits what the guest declared: the length
\* word at val3 is readable and holds at least len(buf)
Fits(o, mem, len_ptr) ==
    /\ len_ptr + 4 <= MemSize
    /\ mem[len_ptr] + 256 * mem[len_ptr + 1] + 65536 * mem[len_ptr + 2]
         + 16777216 * mem[len_ptr + 3] >= Len(WBuf(o))

\* C3 as stated: a priced write that is not skipped and whose charge exceeds
\* the gas left returns OutOfGas and leaves sandbox memory as it was.
C3_AlwaysOutOfGas ==
    [][(/\ lastOp'.op = "write"
        /\ WWeight(lastOp').some
        /\ ~Skipped(lastOp', output_ptr)
        /\ Price(lastOp') > gas_left) =>
        /\ ret' = Err("OutOfGas")
        /\ memory' = memory
      ]_vars

\* C3 amended: in a priced write that is not skipped, the gas charge comes
\* before every store to sandbox memory.  When the charge exceeds the gas
\* left the write fails and sandbox memory (output buffer and length word
\* alike) is as it was, with no store at all: with OutOfGas when buf fits
\* the output buffer the guest declared, and with MemoryAccessOutOfBounds,
\* before any charge, when it does not.
C3_ChargeBeforeWrite ==
    [][(/\ lastOp'.op = "write"
        /\ WWeight(lastOp').some
        /\ ~Skipped(lastOp', output_ptr)) =>
        /\ \A i, j \in DOMAIN trace' :
              trace'[i].ev = "charge_gas" /\ trace'[j].ev = "set" => i < j
        /\ Price(lastOp') > gas_left =>
              /\ Fits(lastOp', memory, output_len_ptr) =>
                    /\ ret' = Err("OutOfGas")
                    /\ HasEv(trace', "charge_gas")
              /\ ~Fits(lastOp', memory, output_len_ptr) =>
                    /\ ret' = Err("MemoryAccessOutOfBounds")
                    /\ ~HasEv(trace', "charge_gas")
              /\ memory' = memory
              /\ ~HasEv(trace', "set")
      ]_vars

C3_Witness ==
    /\ lastOp.op = "write"
    /\ WWeight(lastOp).some
    /\ ~Skipped(lastOp, output_ptr)
    /\ ret = Err("OutOfGas")
    /\ \E i \in DOMAIN trace : trace[i].ev = "charge_gas" /\ trace[i].amount > gas_left

\* C4 as stated: a priced write charges exactly weight_per_byte * len(buf),
\* whatever the two values are.
C4_ExactProduct ==
    lastOp.op = "write" /\ WWeight(lastOp).some =>
        \A i \in DOMAIN trace :
            trace[i].ev = "charge_gas" =>
                trace[i].amount = WWeight(lastOp).w * Len(WBuf(lastOp))

\* C4 amended: a priced write charges weight_per_byte * len(buf) saturated
\* at the greatest Weight: the product when it fits, else the greatest
\* Weight.  A successful priced write that is not skipped makes that one
\* charge and the gas left drops by it.
C4_SaturatingCharge ==
    [][lastOp'.op = "write" /\ WWeight(lastOp').some =>
        LET product == WWeight(lastOp').w * Len(WBuf(lastOp'))
            amount == IF product > WeightMax THEN WeightMax ELSE product
            charges == {i \in DOMAIN trace' : trace'[i].ev = "charge_gas"}
        IN  /\ \A i \in charges : trace'[i].amount = amount
            /\ Cardinality(charges) <= 1
            /\ ret'.tag = "Ok" /\ ~Skipped(lastOp', output_ptr) =>
                  /\ Cardinality(charges) = 1
                  /\ gas_left' = gas_left - amount
      ]_vars

C4_Witness ==
    /\ lastOp.op = "write"
    /\ WWeight(lastOp).some
    /\ WWeight(lastOp).w * Len(WBuf(lastOp)) > WeightMax
    /\ ret.tag = "Ok"
    /\ \E i \in DOMAIN trace : trace[i].ev = "charge_gas" /\ trace[i].amount = WeightMax

\* C5: a write with allow_skip set, when the guest passed the skip sentinel
\* as its output pointer, stores nothing in sandbox memory (buffer and length
\* word untouched) and succeeds, for every buf and weight_per_byte.
C5_SkippedWrite ==
    [][lastOp'.op = "write" /\ WSkip(lastOp') /\ output_ptr = U32Max =>
        /\ ret' = Ok("()")
        /\ memory' = memory
        /\ ~HasEv(trace', "set")
      ]_vars

C5_Witness ==
    /\ lastOp.op = "write" /\ WSkip(lastOp) /\ output_ptr = U32Max
    /\ Len(WBuf(lastOp)) > 0 /\ WWeight(lastOp).some
    /\ ret.tag = "Ok"

\* C6: the unit extension's call returns the NoChainExtension error, never a
\* RetVal, for every func_id and call words, and calls the execution
\* context's caller accessor before it returns.
C6_UnitCall ==
    /\ lastOp.op = "call" =>
        /\ ret = Err("NoChainExtension")
        /\ ret.tag # "Ok"
        /\ trace = <<[ev |-> "caller"]>>
    /\ CanStep /\ state = "Init" /\ lastOp.op = "environment" =>
        \A f \in FuncIds : ENABLED call(f)

C6_Witness == lastOp.op = "call" /\ lastOp.args = <<7>> /\ output_ptr = U32Max /\ ~live

\* C7: in BufInBufOut a read whose range [val0, val0 + val1) is not wholly
\* inside the sandbox memory fails with MemoryAccessOutOfBounds and hands
\* back no bytes.
C7_ReadOutOfBounds ==
    lastOp.op = "read" /\ input_ptr + input_len > MemSize =>
        /\ state = "BufInBufOut"
        /\ ret = Err("MemoryAccessOutOfBounds")

C7_Witness ==
    /\ lastOp.op = "read" /\ input_ptr + input_len > MemSize
    /\ input_ptr < MemSize /\ ret.tag = "Err"

\* C8: a successful write that is not skipped stores len(buf), as a 32-bit
\* little-endian value, at val3 and then buf at val2, in that order and
\* nothing else: afterwards buf lies at val2, the length word lies at val3
\* wherever the buffer does not cover it, and every other byte is as before.
C8_WriteStores ==
    [][(/\ lastOp'.op = "write"
        /\ ret'.tag = "Ok"
        /\ ~Skipped(lastOp', output_ptr)) =>
        LET buf == WBuf(lastOp')
            n == Len(buf)
            word == [k \in 1 .. 4 |-> (n \div (256 ^ (k - 1))) % 256]
            stores == SelectSeq(trace', LAMBDA e : e.ev = "set")
            InBuf(a) == a >= output_ptr /\ a < output_ptr + n
            InWord(a) == a >= output_len_ptr /\ a < output_len_ptr + 4
        IN  /\ stores = <<[ev |-> "set", ptr |-> output_len_ptr, bytes |-> word],
                          [ev |-> "set", ptr |-> output_ptr, bytes |-> buf]>>
            /\ \A a \in 0 .. MemSize - 1 :
                  memory'[a] = IF InBuf(a) THEN buf[a - output_ptr + 1]
                               ELSE IF InWord(a) THEN word[a - output_len_ptr + 1]
                               ELSE memory[a]
            /\ output_ptr + n <= MemSize
      ]_vars

C8_Witness ==
    /\ lastOp.op = "write" /\ ret.tag = "Ok"
    /\ WBuf(lastOp) = <<9, 8, 7>>
    /\ output_ptr = 0 /\ output_len_ptr = 4
    /\ memory[0] = 9 /\ memory[1] = 8 /\ memory[2] = 7
    /\ memory[4] = 3 /\ memory[5] = 0 /\ memory[6] = 0 /\ memory[7] = 0

\* C9: a write whose buf is longer than the output buffer the guest declared
\* (the length word at val3) fails with MemoryAccessOutOfBounds and leaves
\* sandbox memory as it was; no write that fails with that error stores any
\* byte of buf, whole or truncated.
C9_WriteTooLong ==
    [][(/\ lastOp'.op = "write"
        /\ ~Skipped(lastOp', output_ptr)) =>
        LET n == Len(WBuf(lastOp'))
            declared == memory[output_len_ptr] + 256 * memory[output_len_ptr + 1]
                        + 65536 * memory[output_len_ptr + 2]
                        + 16777216 * memory[output_len_ptr + 3]
        IN  /\ output_len_ptr + 4 <= MemSize /\ declared < n =>
                  /\ ret' = Err("MemoryAccessOutOfBounds")
                  /\ memory' = memory
                  /\ ~HasEv(trace', "set")
            /\ ret' = Err("MemoryAccessOutOfBounds") =>
                  \A i \in DOMAIN trace' :
                      trace'[i].ev = "set" =>
                          trace'[i].ptr = output_len_ptr /\ Len(trace'[i].bytes) = 4
      ]_vars

C9_Witness ==
    /\ lastOp.op = "write" /\ ~Skipped(lastOp, output_ptr)
    /\ Len(WBuf(lastOp)) = 3
    /\ output_len_ptr = 0 /\ memory[0] = 1 /\ memory[1] = 0 /\ memory[2] = 0 /\ memory[3] = 0
    /\ output_ptr = 4
    /\ ret = Err("MemoryAccessOutOfBounds")

\* C10: in BufInBufOut a successful read returns exactly val1 bytes, the
\* sandbox memory contents at addresses val0 .. val0 + val1 - 1.
C10_ReadReturnsInput ==
    lastOp.op = "read" /\ ret.tag = "Ok" =>
        /\ state = "BufInBufOut"
        /\ Len(ret.val) = input_len
        /\ \A i \in 1 .. input_len : ret.val[i] = memory[input_ptr + i - 1]

C10_Witness ==
    /\ lastOp.op = "read" /\ ret = Ok(<<1, 2, 3>>)
    /\ input_ptr = 0 /\ input_len = 3


\* C11: charge_weight and ext can be called in every state of a live
\* environment; charge_weight hands exactly its amount to the gas meter, the
\* meter pays it when it can, and when it cannot the call returns the
\* meter's OutOfGas error as it is.
C11_ChargeWeightForwards ==
    [][/\ lastOp'.op = "charge_weight" =>
            /\ trace' = <<[ev |-> "charge_gas", amount |-> lastOp'.args[1]]>>
            /\ lastOp'.args[1] <= gas_left =>
                  ret' = Ok("()") /\ gas_left' = gas_left - lastOp'.args[1]
            /\ lastOp'.args[1] > gas_left => ret' = Err("OutOfGas")
            /\ memory' = memory /\ state' = state
       /\ live' /\ steps' < MaxSteps =>
            /\ (ENABLED ext)'
            /\ \A a \in Amounts : (ENABLED charge_weight(a))'
      ]_vars

C11_Witness ==
    /\ lastOp.op = "charge_weight" /\ ret = Err("OutOfGas")
    /\ state = "OnlyIn" /\ lastOp.args[1] > gas_left


\* C12: the four call words are fixed for the whole dispatch: environment()
\* stores its 1st..4th word, no later operation of the dispatch (transition,
\* charge_weight, ext, read, write, accessor, return; failed or not) changes
\* any of them, and val0..val3 return the 1st..4th stored word.
C12_CallWordsImmutable ==
    [][/\ lastOp'.op = "environment" =>
            /\ input_ptr' = lastOp'.args[1]
            /\ input_len' = lastOp'.args[2]
            /\ output_ptr' = lastOp'.args[3]
            /\ output_len_ptr' = lastOp'.args[4]
       /\ lastOp'.op # "environment" =>
            /\ input_ptr' = input_ptr
            /\ input_len' = input_len
            /\ output_ptr' = output_ptr
            /\ output_len_ptr' = output_len_ptr
       /\ lastOp'.op = "val0" => ret' = Ok(input_ptr)
       /\ lastOp'.op = "val1" => ret' = Ok(input_len)
       /\ lastOp'.op = "val2" => ret' = Ok(output_ptr)
       /\ lastOp'.op = "val3" => ret' = Ok(output_len_ptr)
      ]_vars

C12_Witness ==
    /\ lastOp.op = "val3" /\ ret = Ok(4)
    /\ input_ptr = MemSize - 2 /\ input_len = 3 /\ output_ptr = U32Max /\ output_len_ptr = 4
    /\ steps = 4


\* C13: a call that returns Converging(v) yields v to the guest, which goes
\* on running; a call that returns Diverging{flags, data} terminates the
\* guest's execution with exactly that pair, and a terminated guest is never
\* given control again: it makes no further host call and stays as it is.
C13_ReturnValueProtocol ==
    [][/\ lastOp'.op = "return" /\ ret'.tag = "Ok" =>
            /\ ret'.val.kind = "Converging" =>
                  /\ guest'.status = "running"
                  /\ guest'.value = ret'.val.value
            /\ ret'.val.kind = "Diverging" =>
                  /\ guest'.status = "terminated"
                  /\ guest'.value = <<ret'.val.flags, ret'.val.data>>
       /\ guest'.status = "terminated" =>
            /\ ~live'
            /\ \A ip \in InPtrs, il \in InLens, op \in OutPtrs, olp \in OutLenPtrs :
                  ~(ENABLED environment(ip, il, op, olp))'
       /\ guest.status = "terminated" => guest' = guest /\ ~live'
       /\ guest'.status = "running" /\ ~live' /\ steps' < MaxSteps =>
            (ENABLED environment(0, 0, 0, 0))'
      ]_vars

C13_Witness ==
    /\ lastOp.op = "return" /\ ret = Ok(Diverging(1, <<9>>))
    /\ guest.status = "terminated" /\ guest.value = <<1, <<9>>>>
    /\ steps < MaxSteps


\* C15: enabled() answers true for an implementation that keeps the trait's
\* provided method and false for the unit implementation.
C15_Enabled ==
    lastOp.op = "enabled" =>
        /\ lastOp.args[1] = "()" => ret = Ok(FALSE)
        /\ lastOp.args[1] # "()" => ret = Ok(TRUE)

C15_Witness == lastOp.op = "enabled" /\ lastOp.args = <<"()">> /\ ret.val = FALSE


\* C16: the unit extension's call leaves the environment in Init, charges no
\* gas, reads and writes no sandbox memory and keeps the call words; all it
\* does is call the execution context's caller accessor.
C16_UnitCallInert ==
    [][lastOp'.op = "call" =>
        /\ state = "Init" /\ state' = "Init"
        /\ gas_left' = gas_left
        /\ memory' = memory
        /\ <<input_ptr', input_len', output_ptr', output_len_ptr'>>
             = <<input_ptr, input_len, output_ptr, output_len_ptr>>
        /\ ~HasEv(trace', "charge_gas") /\ ~HasEv(trace', "get") /\ ~HasEv(trace', "set")
        /\ Len(trace') = 1 /\ trace'[1].ev = "caller"
      ]_vars

C16_Witness ==
    /\ lastOp.op = "call" /\ state = "Init" /\ ~live
    /\ gas_left = 1 /\ memory[4] = 3 /\ trace = <<CallerEv>>


EnvironmentOps == Accessors \cup TransitionOps \cup {"charge_weight", "ext"}

\* C17: dispatches do not overlap and no environment outlives its dispatch:
\* environment() is called only while no environment is live and gives one
\* in Init; every environment operation acts on the live environment and
\* leaves it live; call and return end the dispatch; and while none is live
\* no environment operation can be called, only a new dispatch begun.
C17_DispatchesDoNotOverlap ==
    [][/\ lastOp'.op = "environment" => ~live /\ live' /\ state' = "Init"
       /\ lastOp'.op \in EnvironmentOps => live /\ live'
       /\ lastOp'.op \in {"call", "return"} => live /\ ~live'
       /\ ~live' /\ steps' < MaxSteps =>
            /\ ~(ENABLED ext)' /\ ~(ENABLED read)'
            /\ ~(ENABLED val0)' /\ ~(ENABLED val1)' /\ ~(ENABLED val2)' /\ ~(ENABLED val3)'
            /\ ~(ENABLED only_in)' /\ ~(ENABLED prim_in_buf_out)' /\ ~(ENABLED buf_in_buf_out)'
            /\ \A a \in Amounts : ~(ENABLED charge_weight(a))'
            /\ \A b \in Bufs, s \in BOOLEAN, w \in WeightOpts : ~(ENABLED write(b, s, w))'
            /\ \A r \in Results : ~(ENABLED return(r))'
       /\ live' /\ steps' < MaxSteps =>
            \A ip \in InPtrs, il \in InLens, op \in OutPtrs, olp \in OutLenPtrs :
                ~(ENABLED environment(ip, il, op, olp))'
      ]_vars

\* a second dispatch, begun after the first returned, with its environment
\* back in Init
C17_Witness ==
    /\ lastOp.op = "environment" /\ live /\ state = "Init"
    /\ steps = 4 /\ guest.status = "running" /\ guest.value = 0


\* C18: read charges no gas and stores nothing, whether it succeeds or
\* fails; the gas left changes only in charge_weight and in a priced write.
C18_ReadChargesNothing ==
    [][/\ lastOp'.op = "read" =>
            /\ gas_left' = gas_left
            /\ memory' = memory
            /\ ~HasEv(trace', "charge_gas") /\ ~HasEv(trace', "set")
       /\ gas_left' # gas_left =>
            \/ lastOp'.op = "charge_weight"
            \/ lastOp'.op = "write" /\ WWeight(lastOp').some
      ]_vars

C18_Witness ==
    /\ lastOp.op = "read" /\ ret.tag = "Ok" /\ Len(ret.val) = 3
    /\ gas_left = 1

\* C19: a write with weight_per_byte = None charges no gas, for every buf
\* and allow_skip: the gas left is as before and the write does not fail
\* with OutOfGas.
C19_UnpricedWrite ==
    [][lastOp'.op = "write" /\ ~WWeight(lastOp').some =>
        /\ gas_left' = gas_left
        /\ ~HasEv(trace', "charge_gas")
        /\ ~(ret'.tag = "Err" /\ ret'.val = "OutOfGas")
      ]_vars

C19_Witness ==
    /\ lastOp.op = "write" /\ ~WWeight(lastOp).some /\ ~WSkip(lastOp)
    /\ Len(WBuf(lastOp)) = 3 /\ ret.tag = "Ok" /\ gas_left = 1

\* C20: a transition changes the state marker and nothing else: it returns
\* the environment (it cannot fail and is always callable in Init), calls no
\* host primitive, and leaves the gas left, the sandbox memory, the guest and
\* the four call words as they were.
C20_TransitionFrame ==
    [][/\ lastOp'.op \in TransitionOps =>
            /\ ret' = Ok("()")
            /\ trace' = << >>
            /\ gas_left' = gas_left
            /\ memory' = memory
            /\ guest' = guest
            /\ live' = live
            /\ <<input_ptr', input_len', output_ptr', output_len_ptr'>>
                 = <<input_ptr, input_len, output_ptr, output_len_ptr>>
       /\ live' /\ state' = "Init" /\ steps' < MaxSteps =>
            (ENABLED only_in)' /\ (ENABLED prim_in_buf_out)' /\ (ENABLED buf_in_buf_out)'
      ]_vars

C20_Witness ==
    /\ lastOp.op = "prim_in_buf_out" /\ state = "PrimInBufOut" /\ live
    /\ gas_left = 1 /\ output_ptr = U32Max /\ memory[0] = 1 /\ memory[4] = 5

====
